---- MODULE Spec2Model ----
(***************************************************************************)
(* Model of docs/notebooks/COG NDVI.ipynb: the notebook's code cells run   *)
(* top to bottom in one kernel.  Two masked reads of remote single-band    *)
(* rasters (band 3 = red, band 4 = near infrared) are followed by the NDVI *)
(* cell  ndvi = (b4.astype(float) - b3.astype(float)) / (b4 + b3).         *)
(*                                                                         *)
(* Arrays carry their dtype; arithmetic is decided by the dtype, as numpy  *)
(* decides it: uint16 + uint16 stays uint16 and wraps modulo 2^16, float64 *)
(* arithmetic on integer-valued samples below 2^53 is exact, and a true    *)
(* division follows IEEE 754 (x/0 is an infinity, 0/0 is not-a-number).    *)
(* A finite quotient is kept as the reduced fraction whose correctly       *)
(* rounded value the float64 result is.                                    *)
(*                                                                         *)
(* A cell that raises leaves the names it would have bound untouched; the  *)
(* kernel stays alive, so a later cell can still be run.                   *)
(***************************************************************************)
EXTENDS Integers, Sequences, FiniteSets, TLC

\* ------------------------------------------------------------------ bounds

\* Largest number of rows and of columns of a cropped window.
MaxRows == 3

MaxCols == 2

\* Landsat 8 L1TP bands are unsigned 16-bit rasters.
BandBits == 16

Modulus == 2 ^ BandBits

\* Sample values a raster holds, laid out cyclically over its pixels.
Samples == <<0, 5, 30000, 32768, 40000>>

\* dataset.nodata: None (no declaration) or a declared value of the band type.
None == -1

NodataDecls == {None, 1, 32768}

Urls == {"b3_url", "b4_url"}

Cells == {"b3", "b4", "ndvi", "show"}

VARIABLES
    pc,                 \* the next cell (or step of a cell) to run
    mask_gdf,           \* the geometries loaded from mask_boundary.shp
    remote,             \* what each URL resolves to, fixed at its first open
    src,                \* the name src: the URL of the dataset it refers to
    open_handles,       \* the datasets currently open
    opens,              \* how many times each URL has been opened
    names,              \* the names bound in the kernel's namespace
    b3, b3_mask_transform,
    b4, b4_mask_transform,
    ndvi,
    errstate,           \* numpy's process-wide floating-point error handling
    err                 \* the exception each cell ended with, or "none"

vars == <<pc, mask_gdf, remote, src, open_handles, opens, names,
          b3, b3_mask_transform, b4, b4_mask_transform, ndvi, errstate, err>>

\* ------------------------------------------------------------- pure parts

Abs(x) == IF x < 0 THEN -x ELSE x

RECURSIVE Gcd(_, _)
Gcd(a, b) == IF b = 0 THEN a ELSE Gcd(b, a % b)

NaN == [kind |-> "nan", num |-> 0, den |-> 1]
PosInf == [kind |-> "inf", num |-> 1, den |-> 0]
NegInf == [kind |-> "inf", num |-> -1, den |-> 0]

\* IEEE 754 division of two integer-valued doubles.
Quot(n, d) ==
    IF d = 0
    THEN IF n = 0 THEN NaN ELSE IF n > 0 THEN PosInf ELSE NegInf
    ELSE LET s == IF d < 0 THEN -1 ELSE 1
             g == Gcd(Abs(n), Abs(d))
         IN  [kind |-> "fin", num |-> (s * n) \div g, den |-> (s * d) \div g]

Zero == Quot(0, 1)

NoArray == [dtype |-> "none", shape |-> <<0, 0, 0>>, data |-> <<>>]

NoTransform == [c |-> 0, f |-> 0, a |-> 0, e |-> 0]

NoRaster == [fetched |-> FALSE, overlap |-> FALSE, rows |-> 0, cols |-> 0,
             nodata |-> None, off |-> 0]

\* The rasters a URL can resolve to: the window the mask geometries cover on
\* the raster's grid (rows x cols), its declared nodata and its pixel values;
\* or a raster whose extent no geometry intersects.
Rasters ==
    [fetched : {TRUE}, overlap : {TRUE}, rows : 1..MaxRows, cols : 1..MaxCols,
     nodata : NodataDecls, off : 0..(Len(Samples) - 1)]
    \cup {[NoRaster EXCEPT !.fetched = TRUE]}

\* The geometry sets of the shapefile: one polygon covering the whole of its
\* bounding window, or one that leaves the window's top-left pixel uncovered.
Geometries == [cut : BOOLEAN]

NoGeometry == [cut |-> FALSE]

SizeOf(a) == a.shape[1] * a.shape[2] * a.shape[3]

RowOf(i, cols) == (i - 1) \div cols + 1

ColOf(i, cols) == ((i - 1) % cols) + 1

\* dataset.read: the value of the window's pixel (r, c).
RasterValue(ds, r, c) ==
    Samples[(((r - 1) * ds.cols + (c - 1) + ds.off) % Len(Samples)) + 1]

\* geometry_mask: whether pixel (r, c) of the window is inside a polygon.
InsideAll(g, r, c) == TRUE

Inside(g, r, c) == ~(g.cut /\ r = 1 /\ c = 1)

\* mask(nodata=None): the dataset's nodata, or 0 when it declares none.
FillValue(ds) == IF ds.nodata = None THEN 0 ELSE ds.nodata

\* mask(..., crop=True) raises ValueError when no shape overlaps the raster.
MaskNeverRaises(ds) == FALSE

MaskRaises(ds) == ~ds.overlap

\* The array mask(dataset=src, shapes=mask_gdf.geometry, crop=True) returns.
MaskArray(ds, g) ==
    [dtype |-> "uint16",
     shape |-> <<1, ds.rows, ds.cols>>,
     data  |-> [i \in 1..(ds.rows * ds.cols) |->
                  IF Inside(g, RowOf(i, ds.cols), ColOf(i, ds.cols))
                  THEN RasterValue(ds, RowOf(i, ds.cols), ColOf(i, ds.cols))
                  ELSE FillValue(ds)]]

\* The window's affine transform; the window starts at the raster's origin.
MaskTransform(ds) == [c |-> 0, f |-> 0, a |-> 1, e |-> -1]

\* Dataset.__exit__: leaving the with block closes the dataset.
DatasetExitLeaky(handles, url, raised) ==
    IF raised THEN handles ELSE handles \ {url}

DatasetExit(handles, url, raised) == handles \ {url}

\* ndarray.astype(float)
AsTypeFloat(a) == [a EXCEPT !.dtype = "float64"]

\* numpy broadcasting of two shapes of equal rank.
BroadcastableStrict(s, t) == s = t

Broadcastable(s, t) ==
    \A k \in 1..Len(s) : s[k] = t[k] \/ s[k] = 1 \/ t[k] = 1

BroadcastShape(s, t) == [k \in 1..Len(s) |-> IF s[k] = 1 THEN t[k] ELSE s[k]]

\* The element of a that position i of an array of shape s reads.
At(a, s, i) ==
    LET r == IF a.shape[2] = 1 THEN 1 ELSE RowOf(i, s[3])
        c == IF a.shape[3] = 1 THEN 1 ELSE ColOf(i, s[3])
    IN  a.data[(r - 1) * a.shape[3] + c]

ResultType(a, b) ==
    IF a.dtype = "uint16" /\ b.dtype = "uint16" THEN "uint16" ELSE "float64"

\* A value stored in an array of the given dtype.
Store(t, v) == IF t = "uint16" THEN v % Modulus ELSE v

Elementwise(a, b, sign) ==
    LET s == BroadcastShape(a.shape, b.shape)
        t == ResultType(a, b)
    IN  [dtype |-> t, shape |-> s,
         data |-> [i \in 1..(s[1] * s[2] * s[3]) |->
                     Store(t, At(a, s, i) + sign * At(b, s, i))]]

\* a + b
Add(a, b) == Elementwise(a, b, 1)

\* a - b
Subtract(a, b) == Elementwise(a, b, -1)

\* a / b
TrueDivide(a, b) ==
    LET s == BroadcastShape(a.shape, b.shape)
    IN  [dtype |-> "float64", shape |-> s,
         data |-> [i \in 1..(s[1] * s[2] * s[3]) |->
                     Quot(At(a, s, i), At(b, s, i))]]

\* numpy's error handling when the notebook starts.
DefaultErrState ==
    [divide |-> "warn", over |-> "warn", under |-> "ignore", invalid |-> "warn"]

\* np.seterr(divide='ignore', invalid='ignore')
SetErrDivideOnly(e) == [e EXCEPT !.divide = "ignore"]

SetErr(e) == [e EXCEPT !.divide = "ignore", !.invalid = "ignore"]

\* Whether a division raises FloatingPointError under the error state e.
DivideRaises(a, e) ==
    \E i \in 1..SizeOf(a) :
        \/ a.data[i].kind = "nan" /\ e.invalid = "raise"
        \/ a.data[i].kind = "inf" /\ e.divide = "raise"

\* (b4.astype(float) - b3.astype(float)) / (b4 + b3)
NdviOf(nir, red) ==
    TrueDivide(Subtract(AsTypeFloat(nir), AsTypeFloat(red)), Add(nir, red))

\* ---------------------------------------------------------------- actions

Init ==
    /\ pc = "load_mask"
    /\ mask_gdf = NoGeometry
    /\ remote = [u \in Urls |-> NoRaster]
    /\ src = "none"
    /\ open_handles = {}
    /\ opens = [u \in Urls |-> 0]
    /\ names = {"b3_url", "b4_url"}
    /\ b3 = NoArray
    /\ b3_mask_transform = NoTransform
    /\ b4 = NoArray
    /\ b4_mask_transform = NoTransform
    /\ ndvi = NoArray
    /\ errstate = DefaultErrState
    /\ err = [c \in Cells |-> "none"]

\* mask_gdf = gpd.read_file('mask_boundary.shp')
LoadMask ==
    /\ pc = "load_mask"
    /\ \E g \in Geometries : mask_gdf' = g
    /\ names' = names \cup {"mask_gdf"}
    /\ pc' = "b3_open"
    /\ UNCHANGED <<remote, src, open_handles, opens, b3, b3_mask_transform,
                   b4, b4_mask_transform, ndvi, errstate, err>>

\* with rasterio.open(url) as src:
Open(url, cell, here, body, after) ==
    /\ pc = here
    /\ opens' = [opens EXCEPT ![url] = @ + 1]
    /\ \/ \* the resource cannot be opened: nothing is bound, the cell ends
          /\ err' = [err EXCEPT ![cell] = "ResourceUnavailable"]
          /\ pc' = after
          /\ UNCHANGED <<remote, src, open_handles, names>>
       \/ \E ds \in Rasters :
          /\ remote' = [remote EXCEPT ![url] = ds]
          /\ src' = url
          /\ names' = names \cup {"src"}
          /\ open_handles' = open_handles \cup {url}
          /\ pc' = body
          /\ UNCHANGED err
    /\ UNCHANGED <<mask_gdf, b3, b3_mask_transform, b4, b4_mask_transform,
                   ndvi, errstate>>

OpenB3 == Open("b3_url", "b3", "b3_open", "b3_mask", "b4_open")

OpenB4 == Open("b4_url", "b4", "b4_open", "b4_mask", "ndvi")

\* The body of the with block and the exit from it:
\*     bN, bN_mask_transform = mask(dataset=src, shapes=mask_gdf.geometry, crop=True)
\* failed is "none", or the I/O failure of the windowed read.
MaskBody(url, cell, failed) ==
    LET ds == remote[url]
        raised == IF MaskRaises(ds) THEN "GeometryMismatch" ELSE failed
    IN  /\ open_handles' = DatasetExit(open_handles, url, raised # "none")
        /\ err' = [err EXCEPT ![cell] = raised]
        /\ IF raised = "none"
           THEN /\ names' = names \cup {cell, cell \o "_mask_transform"}
                /\ IF cell = "b3"
                   THEN /\ b3' = MaskArray(ds, mask_gdf)
                        /\ b3_mask_transform' = MaskTransform(ds)
                        /\ UNCHANGED <<b4, b4_mask_transform>>
                   ELSE /\ b4' = MaskArray(ds, mask_gdf)
                        /\ b4_mask_transform' = MaskTransform(ds)
                        /\ UNCHANGED <<b3, b3_mask_transform>>
           ELSE UNCHANGED <<names, b3, b3_mask_transform, b4, b4_mask_transform>>

MaskB3 ==
    /\ pc = "b3_mask"
    /\ \E failed \in {"none", "ResourceUnavailable"} : MaskBody("b3_url", "b3", failed)
    /\ pc' = "b4_open"
    /\ UNCHANGED <<mask_gdf, remote, src, opens, ndvi, errstate>>

MaskB4 ==
    /\ pc = "b4_mask"
    /\ \E failed \in {"none", "ResourceUnavailable"} : MaskBody("b4_url", "b4", failed)
    /\ pc' = "ndvi"
    /\ UNCHANGED <<mask_gdf, remote, src, opens, ndvi, errstate>>

\* np.seterr(divide='ignore', invalid='ignore')
\* ndvi = (b4.astype(float) - b3.astype(float)) / (b4 + b3)
CalcNdvi ==
    /\ pc = "ndvi"
    /\ errstate' = SetErr(errstate)
    /\ LET raised ==
              IF ~({"b3", "b4"} \subseteq names) THEN "NameError"
              ELSE IF ~Broadcastable(b4.shape, b3.shape) THEN "ShapeMismatch"
              ELSE IF DivideRaises(NdviOf(b4, b3), errstate') THEN "FloatingPointError"
              ELSE "none"
       IN  /\ err' = [err EXCEPT !["ndvi"] = raised]
           /\ IF raised = "none"
              THEN /\ ndvi' = NdviOf(b4, b3)
                   /\ names' = names \cup {"ndvi"}
              ELSE UNCHANGED <<ndvi, names>>
    /\ pc' = "show"
    /\ UNCHANGED <<mask_gdf, remote, src, open_handles, opens,
                   b3, b3_mask_transform, b4, b4_mask_transform>>

\* show(ndvi)
Show ==
    /\ pc = "show"
    /\ err' = [err EXCEPT !["show"] = IF "ndvi" \in names THEN "none" ELSE "NameError"]
    /\ pc' = "done"
    /\ UNCHANGED <<mask_gdf, remote, src, open_handles, opens, names,
                   b3, b3_mask_transform, b4, b4_mask_transform, ndvi, errstate>>

Next ==
    \/ LoadMask
    \/ OpenB3
    \/ MaskB3
    \/ OpenB4
    \/ MaskB4
    \/ CalcNdvi
    \/ Show

Spec == Init /\ [][Next]_vars

\* ----------------------------------------------------------------- claims

Ran == pc \in {"show", "done"}

BothRead == {"b3", "b4"} \subseteq names

Computed == "ndvi" \in names

SameShape == b3.shape = b4.shape

Positions == 1..SizeOf(ndvi)

\* (nir - red) / (nir + red) on the promoted values, nothing wrapped.
Promoted(nir, red) == Quot(nir - red, nir + red)

InRange(q) == q.kind = "fin" => (-q.den <= q.num /\ q.num <= q.den)

Max(x, y) == IF x >= y THEN x ELSE y

\* C1: for equal-shape uint16 bands every NDVI element equals
\* (nir - red) / (nir + red) on the promoted values; no intermediate, the
\* denominator included, wraps modulo 2^16.
C1_NoWrap ==
    (Computed /\ SameShape) =>
        \A i \in Positions : ndvi.data[i] = Promoted(b4.data[i], b3.data[i])

\* C2: every finite NDVI element of equal-shape bands lies in [-1, 1].
C2_RangeOrNonFinite ==
    (Computed /\ SameShape) => \A i \in Positions : InRange(ndvi.data[i])

\* C3: when red = nir elementwise and every element is nonzero, NDVI is
\* exactly 0 at every element.
C3_EqualBandsGiveZero ==
    (Computed /\ SameShape
        /\ \A i \in Positions : b3.data[i] = b4.data[i] /\ b3.data[i] # 0)
    => \A i \in Positions : ndvi.data[i] = Zero

\* C4: for equal-shape bands the NDVI cell does not raise, every element with
\* red + nir = 0 is not-a-number, and every other element is
\* (nir - red) / (nir + red).
C4_ZeroSumIsNaN ==
    (Ran /\ BothRead /\ SameShape) =>
        /\ err["ndvi"] = "none"
        /\ Computed
        /\ \A i \in Positions :
              IF b3.data[i] + b4.data[i] = 0
              THEN ndvi.data[i] = NaN
              ELSE ndvi.data[i] = Promoted(b4.data[i], b3.data[i])

\* C5 as stated: whenever the two bands differ in shape, the NDVI cell fails
\* with ShapeMismatch and binds no NDVI array.
C5_AnyMismatchFails ==
    (Ran /\ BothRead /\ ~SameShape) =>
        (err["ndvi"] = "ShapeMismatch" /\ ~Computed)

\* C5 amended: bands of differing shape fail with ShapeMismatch, binding no
\* NDVI array, exactly when on some axis their lengths differ and neither is
\* 1; when they differ only on axes where one length is 1, the cell does not
\* raise and the NDVI array has the larger length on every axis.
C5_MismatchFailsUnlessBroadcast ==
    (Ran /\ BothRead /\ ~SameShape) =>
        IF \E k \in 1..3 : /\ b3.shape[k] # b4.shape[k]
                           /\ b3.shape[k] # 1
                           /\ b4.shape[k] # 1
        THEN err["ndvi"] = "ShapeMismatch" /\ ~Computed
        ELSE /\ err["ndvi"] = "none"
             /\ Computed
             /\ \A k \in 1..3 : ndvi.shape[k] = Max(b3.shape[k], b4.shape[k])

C5_Witness ==
    /\ pc = "done"
    /\ b3.shape = <<1, 3, 2>>
    /\ b4.shape = <<1, 2, 2>>
    /\ err["ndvi"] = "ShapeMismatch"
    /\ ~Computed

\* C6: a dataset is open only during the body of its own with block, so at
\* most one handle is open, band 3's is closed before band 4's is opened, and
\* none is open once the reads have ended, however they ended.
C6_HandlesReleased ==
    /\ Cardinality(open_handles) <= 1
    /\ "b3_url" \in open_handles => pc = "b3_mask"
    /\ "b4_url" \in open_handles => pc = "b4_mask"
    /\ pc \in {"ndvi", "show", "done"} => open_handles = {}

C6_Witness ==
    /\ pc = "b4_mask"
    /\ err["b3"] = "GeometryMismatch"
    /\ opens["b3_url"] = 1
    /\ open_handles = {"b4_url"}

\* C8: once the masked read of a raster that no geometry intersects has
\* ended, its cell has failed with GeometryMismatch, neither the band array
\* nor its transform is bound, the URL was opened exactly once, and no NDVI
\* array is ever bound.
C8_GeometryMismatchSurfaces ==
    /\ (remote["b3_url"].fetched /\ ~remote["b3_url"].overlap
            /\ pc \notin {"load_mask", "b3_open", "b3_mask"})
       => /\ err["b3"] = "GeometryMismatch"
          /\ {"b3", "b3_mask_transform"} \cap names = {}
          /\ opens["b3_url"] = 1
          /\ ~Computed
    /\ (remote["b4_url"].fetched /\ ~remote["b4_url"].overlap
            /\ pc \in {"ndvi", "show", "done"})
       => /\ err["b4"] = "GeometryMismatch"
          /\ {"b4", "b4_mask_transform"} \cap names = {}
          /\ opens["b4_url"] = 1
          /\ ~Computed

C8_Witness ==
    /\ pc = "done"
    /\ remote["b4_url"].fetched
    /\ ~remote["b4_url"].overlap
    /\ "b3" \in names
    /\ err["b4"] = "GeometryMismatch"
    /\ err["ndvi"] = "NameError"

\* The bands were cropped to the same window, its top-left pixel lies outside
\* every polygon, and both rasters fill with the same nodata value.
OutsidePixel ==
    /\ Computed
    /\ SameShape
    /\ mask_gdf.cut
    /\ FillValue(remote["b3_url"]) = FillValue(remote["b4_url"])

\* C9 as stated: the NDVI element of a pixel outside all polygons is
\* non-finite, whatever nodata value the rasters declare.
C9_NodataIsNonFinite == OutsidePixel => ndvi.data[1].kind # "fin"

\* C9 amended: the NDVI element of a pixel outside all polygons, where both
\* bands hold the nodata value n, is not-a-number when n + n is 0 in the
\* band's integer type (n = 0, or n = 2^15 where the sum wraps), and is the
\* finite value 0 for every other n.
C9_NodataIsNaNOnlyForZeroSum ==
    OutsidePixel =>
        ndvi.data[1] = IF (2 * FillValue(remote["b3_url"])) % Modulus = 0
                       THEN NaN ELSE Zero

C9_Witness ==
    /\ OutsidePixel
    /\ remote["b3_url"].nodata = None
    /\ SizeOf(ndvi) > 1
    /\ ndvi.data[1] = NaN

\* C10 as stated: after the NDVI cell has computed its array, numpy's
\* floating-point error handling is what it was before the cell ran.
C10_ErrStateRestored == (Ran /\ Computed) => errstate = DefaultErrState

\* C10 amended: after the NDVI cell has run, whether or not it raised,
\* divide-by-zero and invalid-operation handling are both 'ignore' for all
\* later arithmetic; overflow and underflow handling are unchanged.
C10_ErrStateIgnores ==
    Ran => errstate = [divide |-> "ignore", over |-> DefaultErrState.over,
                       under |-> DefaultErrState.under, invalid |-> "ignore"]

C10_Witness ==
    /\ pc = "done"
    /\ Computed
    /\ \E i \in Positions : ndvi.data[i] = NaN
    /\ errstate.invalid = "ignore"
    /\ errstate # DefaultErrState

====
